---- MODULE Spec2Model ----
(***************************************************************************)
(* Model of scripts/ha_test_harness.py: one invocation of the command-line *)
(* harness, from argument parsing to process exit.  The program is         *)
(* sequential; pc is the statement about to run, and every HTTP request is *)
(* split into its issue (_request up to urlopen) and its outcome (urlopen  *)
(* returning 2xx, raising HTTPError, raising URLError, or timing out while *)
(* the response is read).  Wall-clock time advances while a request is in  *)
(* flight.                                                                 *)
(*                                                                         *)
(* Data representation                                                     *)
(*   optional value   <<>> is None, <<v>> is the value v                   *)
(*   entity id        the sequence of its dot-separated segments           *)
(*   Python value     [kind, n, s]: an int n, a float n.0, or a str s      *)
(*   datetime         integer count of 1/SubSec seconds since the epoch    *)
(*                    (local time is taken to be UTC)                      *)
(* Response bodies and standard output are not modelled.                   *)
(***************************************************************************)
EXTENDS Integers, Sequences, FiniteSets, TLC

VARIABLES
    argv,       \* the command line (with the environment), fixed for the run
    args,       \* the argparse namespace
    pc,         \* statement about to execute
    ret,        \* statement to continue at when the request in flight returns
    frame,      \* locals: _init_helpers' energy_wh and caller, cmd_dump's index
    requests,   \* every request handed to urlopen, in order
    responses,  \* outcome of each request: responses[k] answers requests[k]
    clock,      \* wall clock
    invoked,    \* wall clock when the process was started
    exit_code,  \* None while running, else the process exit status
    stderr      \* what was reported on standard error

vars == <<argv, args, pc, ret, frame, requests, responses, clock, invoked, exit_code, stderr>>

---------------------------------------------------------------------------
(* Bounds *)

\* sub-second resolution of the clock (ticks per second)
SubSec == 2
\* wall clock at process start, in ticks
Now0 == 1000001
\* longest time one request may take, in ticks
MaxLatency == 1

---------------------------------------------------------------------------
(* Python values *)

None == <<>>
Some(v) == <<v>>
IntV(n) == [kind |-> "int", n |-> n, s |-> ""]
FloatV(n) == [kind |-> "float", n |-> n, s |-> ""]
StrV(s) == [kind |-> "str", n |-> 0, s |-> s]

\* truthiness of an optional string: None and "" are falsy
Truthy(opt) == opt # None /\ opt[1] # ""

\* decimal literals float() accepts, among the strings the model uses
FloatLiterals == {ToString(n) : n \in 0..9}

\* float(v) raises ValueError exactly when v is a str that is no number
FloatRaises(v) == v.kind = "str" /\ v.s \notin FloatLiterals

\* float(v)
Float(v) ==
    IF v.kind = "str"
    THEN FloatV(CHOOSE n \in 0..9 : ToString(n) = v.s)
    ELSE FloatV(v.n)

\* str(v): "750.0" for a float, "0" for an int, a str unchanged
Str(v) ==
    CASE v.kind = "str" -> v.s
      [] v.kind = "int" -> ToString(v.n)
      [] v.kind = "float" -> ToString(v.n) \o ".0"

\* str.lower(), on the strings the model uses
Lower(s) ==
    CASE s = "ON" -> "on"
      [] s = "On" -> "on"
      [] s = "True" -> "true"
      [] s = "Running" -> "running"
      [] OTHER -> s

---------------------------------------------------------------------------
(* Entity identifiers *)

RECURSIVE Dotted(_)
\* the identifier as text: its segments joined by "."
Dotted(e) == IF Len(e) = 1 THEN e[1] ELSE e[1] \o "." \o Dotted(Tail(e))

\* entity_id.split(".", 1)[0]
_domain(entity_id) == entity_id[1]

DEFAULTS == [
    energy_sensor |-> <<"sensor", "test_energy_yesterday">>,
    status_entity |-> <<"input_select", "test_status">>,
    lifetime_helper |-> <<"input_number", "test_lifetime_energy">>,
    cycle_start_helper |-> <<"input_datetime", "test_cycle_start">>,
    daily_active_helper |-> <<"input_number", "test_daily_active_seconds">>,
    durations_helper |-> <<"input_text", "test_cycle_durations">>,
    last_processed_helper |-> <<"input_text", "test_last_processed_date">>,
    active_state |-> "running",
    inactive_state |-> "off" ]

---------------------------------------------------------------------------
(* Time *)

Day == 86400 * SubSec

\* timedelta(seconds = n), timedelta(minutes = n)
Seconds(n) == n * SubSec
Minutes(n) == n * 60 * SubSec

\* int(dt.timestamp()): whole seconds, truncated toward zero
_timestamp(dt) == IF dt >= 0 THEN dt \div SubSec ELSE -((-dt) \div SubSec)

\* now.replace(hour=0, minute=0, second=0, microsecond=0)
_local_midnight(now) == now - (now % Day)

GoodIso == "1970-01-05T23:50:00"
BadIso == "not-a-date"

\* datetime.fromisoformat raises ValueError
IsoRaises(value) == value # GoodIso

\* datetime.fromisoformat(value)
FromIsoFormat(value) == 4 * Day + Seconds(23 * 3600 + 50 * 60)

---------------------------------------------------------------------------
(* Command lines *)

DEFAULT_DURATION_SEC == 1800

Commands == {"init", "start", "end", "energy", "split", "scenario", "dump"}

\* base URL and token after flag and environment are merged
Credentials ==
    { [base_url |-> Some("http://ha:8123"), token |-> Some("tok")],
      [base_url |-> Some("http://ha:8123"), token |-> None],
      [base_url |-> Some("http://ha:8123"), token |-> Some("")],
      [base_url |-> None, token |-> Some("tok")] }

StatusEntities ==
    { DEFAULTS.status_entity,
      <<"input_text", "st">>,
      <<"input_number", "st">>,
      <<"input_boolean", "st">>,
      <<"sensor", "st", "x">>,
      <<"status">> }

EnergyWriteEntities == { None, Some(<<"input_number", "test_energy">>) }

CycleStartHelpers == { DEFAULTS.cycle_start_helper, <<"input_text", "cs">> }

\* configured (active, inactive) status strings
StatusStrings ==
    { <<DEFAULTS.active_state, DEFAULTS.inactive_state>>,
      <<"ON", "off">>,
      <<"1", "0">> }

\* the subcommand's own options as typed on the command line (None: the
\* option is not on the command line)
CommandOptions(command) ==
    CASE command = "init" ->
           { [energy_wh |-> w, duration_sec |-> None, start_iso |-> None, init |-> FALSE]
               : w \in {None, Some(FloatV(750))} }
      [] command = "end" ->
           { [energy_wh |-> None, duration_sec |-> d, start_iso |-> None, init |-> FALSE]
               : d \in {None, Some(0), Some(3600)} }
      [] command = "energy" ->
           { [energy_wh |-> Some(FloatV(750)), duration_sec |-> None, start_iso |-> None, init |-> FALSE] }
      [] command = "split" ->
           { [energy_wh |-> Some(FloatV(900)), duration_sec |-> None, start_iso |-> iso, init |-> FALSE]
               : iso \in {None, Some(""), Some(BadIso), Some(GoodIso)} }
      [] command = "scenario" ->
           { [energy_wh |-> Some(FloatV(750)), duration_sec |-> d, start_iso |-> iso, init |-> i]
               : d \in {None, Some(0)},
                 iso \in {None, Some(""), Some(BadIso), Some(GoodIso)},
                 i \in BOOLEAN }
      [] OTHER ->
           { [energy_wh |-> None, duration_sec |-> None, start_iso |-> None, init |-> FALSE] }

\* the command lines the model starts from: connection and entity options
\* (flag or environment variable) and the subcommand's own options
CommandLines ==
    { [ command |-> command,
        base_url |-> cred.base_url,
        token |-> cred.token,
        energy_write_entity |-> ew,
        status_entity |-> se,
        cycle_start_helper |-> cs,
        active_state |-> ss[1],
        inactive_state |-> ss[2],
        options |-> opt ]
      : command \in Commands, cred \in Credentials, ew \in EnergyWriteEntities,
        se \in StatusEntities, cs \in CycleStartHelpers, ss \in StatusStrings,
        opt \in UNION { CommandOptions(c) : c \in Commands } }

\* parser.parse_args(): the namespace, with each subparser's defaults applied.
\* A default is not passed through type=float, so init's is the int 0.
parse_args(cl) ==
    [ command |-> cl.command,
      base_url |-> cl.base_url,
      token |-> cl.token,
      energy_sensor |-> DEFAULTS.energy_sensor,
      energy_write_entity |-> cl.energy_write_entity,
      status_entity |-> cl.status_entity,
      lifetime_helper |-> DEFAULTS.lifetime_helper,
      cycle_start_helper |-> cl.cycle_start_helper,
      daily_active_helper |-> DEFAULTS.daily_active_helper,
      durations_helper |-> DEFAULTS.durations_helper,
      last_processed_helper |-> DEFAULTS.last_processed_helper,
      active_state |-> cl.active_state,
      inactive_state |-> cl.inactive_state,
      energy_wh |-> IF cl.command = "init" /\ cl.options.energy_wh = None
                    THEN Some(IntV(0))
                    ELSE cl.options.energy_wh,
      duration_sec |-> IF cl.command = "scenario" /\ cl.options.duration_sec = None
                       THEN Some(DEFAULT_DURATION_SEC)
                       ELSE cl.options.duration_sec,
      start_iso |-> cl.options.start_iso,
      init |-> cl.options.init ]

Init ==
    /\ argv \in { cl \in CommandLines : cl.options \in CommandOptions(cl.command) }
    /\ args = parse_args(argv)
    /\ pc = "main"
    /\ ret = "main"
    /\ frame = [energy_wh |-> None, caller |-> "main", i |-> 1]
    /\ requests = <<>>
    /\ responses = <<>>
    /\ clock = Now0
    /\ invoked = Now0
    /\ exit_code = None
    /\ stderr = ""

---------------------------------------------------------------------------
(* Process exit *)

\* the process ends with this status and this report on standard error
Exit(code, report) ==
    /\ pc' = "done"
    /\ exit_code' = Some(code)
    /\ stderr' = report
    /\ UNCHANGED <<argv, args, ret, frame, requests, responses, clock, invoked>>

\* sys.exit(2) in _require
_require_fails(label) == Exit(2, "Missing required value: " \o label)

\* a RuntimeError reaches main's handler: message on stderr, sys.exit(1)
RuntimeError(message) == Exit(1, message)

\* any other exception is not caught: traceback, exit status 1
Uncaught(exception) == Exit(1, "Traceback: " \o exception)

---------------------------------------------------------------------------
(* HTTP *)

\* _request up to the call of urlopen: the request is sent and the program
\* blocks until it returns; next is the statement after the call
_request(method, path, payload, next) ==
    IF ~Truthy(args.base_url) THEN _require_fails("HA_BASE_URL or --base-url")
    ELSE IF ~Truthy(args.token) THEN _require_fails("HA_TOKEN or --token")
    ELSE /\ requests' = Append(requests, [method |-> method, path |-> path, payload |-> payload])
         /\ ret' = next
         /\ pc' = "urlopen"
         /\ UNCHANGED <<argv, args, frame, responses, clock, invoked, exit_code, stderr>>

LastRequest == requests[Len(requests)]

\* urlopen returns a 2xx response: _request returns to its caller
urlopen_ok ==
    /\ pc = "urlopen"
    /\ \E latency \in 0..MaxLatency :
         /\ clock' = clock + latency
         /\ responses' = Append(responses, "ok")
    /\ pc' = ret
    /\ UNCHANGED <<argv, args, ret, frame, requests, invoked, exit_code, stderr>>

\* (mutation) the failure is swallowed and the subcommand goes on
_request_continues(status, message) ==
    /\ pc = "urlopen"
    /\ \E latency \in 0..MaxLatency : clock' = clock + latency
    /\ responses' = Append(responses, status)
    /\ pc' = ret
    /\ UNCHANGED <<argv, args, ret, frame, requests, invoked, exit_code, stderr>>

\* an exception leaves _request and surfaces in main: no statement of the
\* subcommand runs after it, and the exit status is 1 whether main's handler
\* catches it (RuntimeError) or not
_request_raises(status, message) ==
    /\ pc = "urlopen"
    /\ \E latency \in 0..MaxLatency :
         /\ clock' = clock + latency
         /\ responses' = Append(responses, status)
    /\ pc' = "done"
    /\ exit_code' = Some(1)
    /\ stderr' = message
    /\ UNCHANGED <<argv, args, ret, frame, requests, invoked>>

\* urlopen raises HTTPError (a non-2xx status)
urlopen_HTTPError ==
    _request_raises("HTTPError",
        LastRequest.method \o " " \o LastRequest.path \o " failed: 500 detail")

\* urlopen raises URLError (no connection, timeout while connecting, ...)
urlopen_URLError ==
    _request_raises("URLError",
        LastRequest.method \o " " \o LastRequest.path \o " failed: reason")

\* urlopen or resp.read() raises an exception that is neither HTTPError nor
\* URLError (a timeout while reading the response): nothing catches it
urlopen_timeout ==
    _request_raises("timeout", "Traceback: socket.timeout: timed out")

_call_service(domain, service, data, next) ==
    _request("POST", "/api/services/" \o domain \o "/" \o service, data, next)

\* (mutation) the path names the domain instead of the entity
_set_state_domain_path(entity_id, state, next) ==
    _request("POST", "/api/states/" \o _domain(entity_id), [state |-> Str(state)], next)

_set_state(entity_id, state, next) ==
    _request("POST", "/api/states/" \o Dotted(entity_id), [state |-> Str(state)], next)

_set_input_number(entity_id, value, next) ==
    _call_service("input_number", "set_value",
                  [entity_id |-> Dotted(entity_id), value |-> value], next)

_set_input_text(entity_id, value, next) ==
    _call_service("input_text", "set_value",
                  [entity_id |-> Dotted(entity_id), value |-> StrV(value)], next)

_set_input_select(entity_id, value, next) ==
    _call_service("input_select", "select_option",
                  [entity_id |-> Dotted(entity_id), option |-> value], next)

\* (mutation) the value is compared without lower-casing
_set_input_boolean_case_sensitive(entity_id, value, next) ==
    _call_service("input_boolean",
                  IF value \in {"on", "true", "1"} THEN "turn_on" ELSE "turn_off",
                  [entity_id |-> Dotted(entity_id)], next)

_set_input_boolean(entity_id, value, next) ==
    _call_service("input_boolean",
                  IF Lower(value) \in {"on", "true", "1"} THEN "turn_on" ELSE "turn_off",
                  [entity_id |-> Dotted(entity_id)], next)

\* float(value) is evaluated before _set_input_number is entered
_set_by_domain(entity_id, value, next) ==
    LET domain == _domain(entity_id) IN
    IF domain = "input_number" THEN
        IF FloatRaises(value)
        THEN Uncaught("ValueError: could not convert string to float")
        ELSE _set_input_number(entity_id, Float(value), next)
    ELSE IF domain = "input_text" THEN _set_input_text(entity_id, Str(value), next)
    ELSE IF domain = "input_select" THEN _set_input_select(entity_id, Str(value), next)
    ELSE IF domain = "input_boolean" THEN _set_input_boolean(entity_id, Str(value), next)
    ELSE _set_state(entity_id, value, next)

_get_state(entity_id, next) ==
    _request("GET", "/api/states/" \o Dotted(entity_id), None, next)

\* (mutation) the cycle start goes through the entity-write dispatch
set_datetime_by_domain(timestamp, next) ==
    _set_by_domain(args.cycle_start_helper, IntV(timestamp), next)

\* the input_datetime.set_datetime call every subcommand uses for the cycle start
set_datetime(timestamp, next) ==
    _call_service("input_datetime", "set_datetime",
                  [entity_id |-> Dotted(args.cycle_start_helper), timestamp |-> timestamp],
                  next)

---------------------------------------------------------------------------
(* main and the subcommands *)

\* a statement that changes only the position and the locals
Goto(next, locals) ==
    /\ pc' = next
    /\ frame' = locals
    /\ UNCHANGED <<argv, args, ret, requests, responses, clock, invoked, exit_code, stderr>>

energy_write_entity == args.energy_write_entity[1]

\* main, after parse_args: default the energy write target, call args.func
main ==
    /\ pc = "main"
    /\ args' = IF args.energy_write_entity = None
               THEN [args EXCEPT !.energy_write_entity = Some(args.energy_sensor)]
               ELSE args
    /\ pc' = "cmd_" \o args.command
    /\ UNCHANGED <<argv, ret, frame, requests, responses, clock, invoked, exit_code, stderr>>

\* args.func returned: the process ends with status 0
main_return ==
    /\ pc = "return"
    /\ pc' = "done"
    /\ exit_code' = Some(0)
    /\ UNCHANGED <<argv, args, ret, frame, requests, responses, clock, invoked, stderr>>

\* _init_helpers(args, energy_wh), called from caller
Call_init_helpers(energy_wh, caller) ==
    Goto("_init_helpers", [frame EXCEPT !.energy_wh = energy_wh, !.caller = caller])

_init_helpers ==
    /\ pc = "_init_helpers"
    /\ _set_input_number(args.lifetime_helper, IntV(0), "_init_helpers_daily_active")

_init_helpers_daily_active ==
    /\ pc = "_init_helpers_daily_active"
    /\ _set_input_number(args.daily_active_helper, IntV(0), "_init_helpers_durations")

_init_helpers_durations ==
    /\ pc = "_init_helpers_durations"
    /\ _set_input_text(args.durations_helper, "[]", "_init_helpers_last_processed")

_init_helpers_last_processed ==
    /\ pc = "_init_helpers_last_processed"
    /\ _set_input_text(args.last_processed_helper, "", "_init_helpers_cycle_start")

_init_helpers_cycle_start ==
    /\ pc = "_init_helpers_cycle_start"
    /\ set_datetime(0, "_init_helpers_status")

_init_helpers_status ==
    /\ pc = "_init_helpers_status"
    /\ _set_by_domain(args.status_entity, StrV(args.inactive_state), "_init_helpers_energy")

\* if energy_wh is not None: write it; then return to the caller
_init_helpers_energy ==
    /\ pc = "_init_helpers_energy"
    /\ IF frame.energy_wh # None
       THEN _set_by_domain(energy_write_entity, frame.energy_wh[1], frame.caller)
       ELSE Goto(frame.caller, frame)

cmd_init ==
    /\ pc = "cmd_init"
    /\ Call_init_helpers(args.energy_wh, "return")

cmd_start ==
    /\ pc = "cmd_start"
    /\ _set_by_domain(args.status_entity, StrV(args.active_state), "return")

\* line 183 of cmd_end
cmd_end_set_status ==
    _set_by_domain(args.status_entity, StrV(args.inactive_state), "return")

\* (mutation) "if args.duration_sec:" -- a duration of 0 counts as absent
cmd_end_truthy ==
    /\ pc = "cmd_end"
    /\ IF args.duration_sec # None /\ args.duration_sec[1] # 0
       THEN set_datetime(_timestamp(clock - Seconds(args.duration_sec[1])), "cmd_end_status")
       ELSE cmd_end_set_status

\* cmd_end up to its first request
cmd_end ==
    /\ pc = "cmd_end"
    /\ IF args.duration_sec # None
       THEN set_datetime(_timestamp(clock - Seconds(args.duration_sec[1])), "cmd_end_status")
       ELSE cmd_end_set_status

cmd_end_status ==
    /\ pc = "cmd_end_status"
    /\ cmd_end_set_status

cmd_energy ==
    /\ pc = "cmd_energy"
    /\ _set_by_domain(energy_write_entity, args.energy_wh[1], "return")

_parse_start_iso_message(value) == "Invalid --start-iso value: " \o value

\* cmd_split up to its first request
cmd_split ==
    /\ pc = "cmd_split"
    /\ IF Truthy(args.start_iso)
       THEN IF IsoRaises(args.start_iso[1])
            THEN RuntimeError(_parse_start_iso_message(args.start_iso[1]))
            ELSE set_datetime(_timestamp(FromIsoFormat(args.start_iso[1])), "cmd_split_status")
       ELSE set_datetime(_timestamp(_local_midnight(clock) - Minutes(10)), "cmd_split_status")

cmd_split_status ==
    /\ pc = "cmd_split_status"
    /\ _set_by_domain(args.status_entity, StrV(args.active_state), "cmd_split_energy")

cmd_split_energy ==
    /\ pc = "cmd_split_energy"
    /\ _set_by_domain(energy_write_entity, args.energy_wh[1], "return")

\* lines 212-221 of cmd_scenario
cmd_scenario_set_start ==
    IF Truthy(args.start_iso)
    THEN IF IsoRaises(args.start_iso[1])
         THEN RuntimeError(_parse_start_iso_message(args.start_iso[1]))
         ELSE set_datetime(_timestamp(FromIsoFormat(args.start_iso[1])), "cmd_scenario_active")
    ELSE set_datetime(_timestamp(clock - Seconds(args.duration_sec[1])), "cmd_scenario_active")

\* cmd_scenario up to its first request, or up to the call of _init_helpers
cmd_scenario ==
    /\ pc = "cmd_scenario"
    /\ IF args.init
       THEN Call_init_helpers(Some(IntV(0)), "cmd_scenario_start")
       ELSE cmd_scenario_set_start

cmd_scenario_start ==
    /\ pc = "cmd_scenario_start"
    /\ cmd_scenario_set_start

cmd_scenario_active ==
    /\ pc = "cmd_scenario_active"
    /\ _set_by_domain(args.status_entity, StrV(args.active_state), "cmd_scenario_inactive")

\* (mutation) the end of the cycle writes the active value again
cmd_scenario_inactive_active ==
    /\ pc = "cmd_scenario_inactive"
    /\ _set_by_domain(args.status_entity, StrV(args.active_state), "cmd_scenario_energy")

cmd_scenario_inactive ==
    /\ pc = "cmd_scenario_inactive"
    /\ _set_by_domain(args.status_entity, StrV(args.inactive_state), "cmd_scenario_energy")

cmd_scenario_energy ==
    /\ pc = "cmd_scenario_energy"
    /\ _set_by_domain(energy_write_entity, args.energy_wh[1], "return")

\* the entities cmd_dump reads, in order
DumpEntities ==
    << args.energy_sensor, args.status_entity, args.lifetime_helper,
       args.cycle_start_helper, args.daily_active_helper, args.durations_helper,
       args.last_processed_helper >>

\* the for statement of cmd_dump: read the next entity, or leave the loop
cmd_dump ==
    /\ pc = "cmd_dump"
    /\ IF frame.i <= Len(DumpEntities)
       THEN _get_state(DumpEntities[frame.i], "cmd_dump_print")
       ELSE Goto("return", frame)

\* the state is printed and the loop goes on
cmd_dump_print ==
    /\ pc = "cmd_dump_print"
    /\ Goto("cmd_dump", [frame EXCEPT !.i = frame.i + 1])

Next ==
    \/ main
    \/ main_return
    \/ urlopen_ok
    \/ urlopen_HTTPError
    \/ urlopen_URLError
    \/ urlopen_timeout
    \/ _init_helpers
    \/ _init_helpers_daily_active
    \/ _init_helpers_durations
    \/ _init_helpers_last_processed
    \/ _init_helpers_cycle_start
    \/ _init_helpers_status
    \/ _init_helpers_energy
    \/ cmd_init
    \/ cmd_start
    \/ cmd_end
    \/ cmd_end_status
    \/ cmd_energy
    \/ cmd_split
    \/ cmd_split_status
    \/ cmd_split_energy
    \/ cmd_scenario
    \/ cmd_scenario_start
    \/ cmd_scenario_active
    \/ cmd_scenario_inactive
    \/ cmd_scenario_energy
    \/ cmd_dump
    \/ cmd_dump_print

Spec == Init /\ [][Next]_vars

---------------------------------------------------------------------------
(* Vocabulary of the properties *)

Done == pc = "done"
Succeeded == Done /\ exit_code = Some(0)
CredentialsPresent == Truthy(argv.base_url) /\ Truthy(argv.token)

\* an entity option of the command line, None standing for the default
StatusEntity == argv.status_entity
CycleStartEntity == argv.cycle_start_helper
EnergyWriteEntity ==
    IF argv.energy_write_entity = None
    THEN DEFAULTS.energy_sensor
    ELSE argv.energy_write_entity[1]

\* the domain prefix of an identifier: the text before its first dot
DomainPrefix(e) == e[1]
ServiceDomains == {"input_number", "input_text", "input_select", "input_boolean"}

Post(path, payload) == [method |-> "POST", path |-> path, payload |-> payload]

\* the strings that switch a boolean helper on, in every capitalisation the
\* command lines of the model use
OnStrings == {"on", "ON", "On", "true", "True", "TRUE", "1"}

SetValueNumber(e, x) ==
    Post("/api/services/input_number/set_value", [entity_id |-> Dotted(e), value |-> x])

StateOverwrite(e, text) == Post("/api/states/" \o Dotted(e), [state |-> text])

\* the one request the dispatch rule prescribes for writing v to entity e
Write(e, v) ==
    CASE DomainPrefix(e) = "input_number" -> SetValueNumber(e, Float(v))
      [] DomainPrefix(e) = "input_text" ->
           Post("/api/services/input_text/set_value",
                [entity_id |-> Dotted(e), value |-> StrV(Str(v))])
      [] DomainPrefix(e) = "input_select" ->
           Post("/api/services/input_select/select_option",
                [entity_id |-> Dotted(e), option |-> Str(v)])
      [] DomainPrefix(e) = "input_boolean" ->
           Post("/api/services/input_boolean/"
                    \o (IF Str(v) \in OnStrings THEN "turn_on" ELSE "turn_off"),
                [entity_id |-> Dotted(e)])
      [] OTHER -> StateOverwrite(e, Str(v))

\* the request that sets the cycle-start helper to a timestamp
SetCycleStart(ts) ==
    Post("/api/services/input_datetime/set_datetime",
         [entity_id |-> Dotted(CycleStartEntity), timestamp |-> ts])

IsSetCycleStart(r) ==
    /\ r.method = "POST"
    /\ r.path = "/api/services/input_datetime/set_datetime"
    /\ DOMAIN r.payload = {"entity_id", "timestamp"}
    /\ r.payload.entity_id = Dotted(CycleStartEntity)
    /\ r.payload.timestamp \in Int

\* request r changes entity e
WritesTo(r, e) ==
    /\ r.method = "POST"
    /\ \/ r.path = "/api/states/" \o Dotted(e)
       \/ "entity_id" \in DOMAIN r.payload /\ r.payload.entity_id = Dotted(e)

RequestsTo(e) == { k \in 1..Len(requests) : WritesTo(requests[k], e) }

\* the dispatch the statement at pc is about to make: <<entity, value>>, or
\* <<>> when the statement at pc is not an entity-write dispatch
DispatchAt ==
    CASE pc \in {"_init_helpers_status", "cmd_end_status", "cmd_scenario_inactive"} ->
           <<StatusEntity, StrV(argv.inactive_state)>>
      [] pc = "cmd_end" /\ argv.options.duration_sec = None ->
           <<StatusEntity, StrV(argv.inactive_state)>>
      [] pc \in {"cmd_start", "cmd_split_status", "cmd_scenario_active"} ->
           <<StatusEntity, StrV(argv.active_state)>>
      [] pc \in {"cmd_energy", "cmd_split_energy", "cmd_scenario_energy"} ->
           <<EnergyWriteEntity, argv.options.energy_wh[1]>>
      [] pc = "_init_helpers_energy" /\ frame.energy_wh # None ->
           <<EnergyWriteEntity, frame.energy_wh[1]>>
      [] OTHER -> <<>>

\* the reset sequence of init, up to and including the status write
ResetRequests ==
    << SetValueNumber(DEFAULTS.lifetime_helper, IntV(0)),
       SetValueNumber(DEFAULTS.daily_active_helper, IntV(0)),
       Post("/api/services/input_text/set_value",
            [entity_id |-> Dotted(DEFAULTS.durations_helper), value |-> StrV("[]")]),
       Post("/api/services/input_text/set_value",
            [entity_id |-> Dotted(DEFAULTS.last_processed_helper), value |-> StrV("")]),
       SetCycleStart(0) >>

\* at most one request is in flight, and a request is issued only after every
\* earlier one returned successfully
OneAtATime ==
    /\ Len(responses) <= Len(requests)
    /\ Len(requests) <= Len(responses) + 1
    /\ \A k \in 1..Len(requests) - 1 : responses[k] = "ok"

---------------------------------------------------------------------------
(* C1 *)

\* C1: whenever the token or the base URL is absent, the invocation ends with
\* exit code 2 and has issued no request, whatever the subcommand and its
\* other options.
C1_MissingCredentialsExit2 ==
    (~CredentialsPresent /\ Done) => (exit_code = Some(2) /\ requests = <<>>)

---------------------------------------------------------------------------
(* C2 *)

InvalidStartIso ==
    /\ argv.command \in {"split", "scenario"}
    /\ argv.options.start_iso = Some(BadIso)

\* C2: split and scenario (with or without --init) given a --start-iso that is
\* not ISO-8601 issue no request at any point and end with exit code 1 and the
\* error reported.
C2_InvalidStartIsoAbortsBeforeAnyRequest ==
    (InvalidStartIso /\ CredentialsPresent) =>
        /\ requests = <<>>
        /\ Done => /\ exit_code = Some(1)
                   /\ stderr = "Invalid --start-iso value: " \o BadIso

---------------------------------------------------------------------------
(* C3 *)

\* C3: init without --energy-wh never writes the energy write target; init
\* with --energy-wh v, once it has succeeded, has written it exactly once, with v.
C3_InitEnergyOnlyWhenGiven ==
    argv.command = "init" =>
        /\ argv.options.energy_wh = None => RequestsTo(EnergyWriteEntity) = {}
        /\ (argv.options.energy_wh # None /\ Succeeded) =>
               /\ Cardinality(RequestsTo(EnergyWriteEntity)) = 1
               /\ requests[Len(requests)] = Write(EnergyWriteEntity, argv.options.energy_wh[1])

---------------------------------------------------------------------------
(* C5 *)

\* C5: every entity-write dispatch to an input_number entity, the status
\* strings included, issues exactly one request: input_number.set_value for
\* that entity carrying the value.
C5_InputNumberAlwaysSetValue ==
    [][ ( /\ DispatchAt # <<>>
          /\ DomainPrefix(DispatchAt[1]) = "input_number"
          /\ CredentialsPresent )
        => /\ Len(requests') = Len(requests) + 1
           /\ requests'[Len(requests')].path = "/api/services/input_number/set_value"
           /\ requests'[Len(requests')].payload.entity_id = Dotted(DispatchAt[1]) ]_vars

---------------------------------------------------------------------------
(* C4 *)

Failed(k) == responses[k] # "ok"

\* C4: a request that fails (non-2xx, network failure, timeout) is the last request
\* of the invocation, the process then ends with exit code 1, every earlier
\* request was answered successfully, and nothing already sent is ever taken
\* back or followed by another request.
C4_FailureStopsTheRun ==
    /\ [](\A k \in 1..Len(responses) :
             Failed(k) => /\ k = Len(responses)
                          /\ Len(requests) = k
                          /\ \A j \in 1..k - 1 : responses[j] = "ok"
                          /\ Done
                          /\ exit_code = Some(1))
    /\ [][ /\ Len(requests') >= Len(requests)
           /\ SubSeq(requests', 1, Len(requests)) = requests
           /\ SubSeq(responses', 1, Len(responses)) = responses
           /\ (Len(responses) > 0 /\ Failed(Len(responses))) => requests' = requests ]_vars

\* C4: the seventh request of a scenario with --init fails after six successes.
C4_Witness_FailureAfterSuccesses ==
    /\ argv.command = "scenario"
    /\ argv.options.init
    /\ Len(responses) = 7
    /\ Failed(7)
    /\ Done

---------------------------------------------------------------------------
(* C6 *)

\* C6: a dispatch to an entity whose domain prefix is not one of the four
\* service domains (an identifier without a dot included) issues exactly one
\* request, POST /api/states/<entity_id> with state = str(v), and no service call.
C6_UnknownDomainStateOverwrite ==
    [][ ( /\ DispatchAt # <<>>
          /\ DomainPrefix(DispatchAt[1]) \notin ServiceDomains
          /\ CredentialsPresent )
        => requests' = Append(requests, StateOverwrite(DispatchAt[1], Str(DispatchAt[2]))) ]_vars

\* C6: the float 750.0 was written to an identifier without a dot and to one
\* with two dots.
C6_Witness_Overwrite ==
    /\ argv.command = "scenario"
    /\ Len(requests) = 4
    /\ \/ StatusEntity = <<"status">> /\ requests[3].path = "/api/states/status"
       \/ StatusEntity = <<"sensor", "st", "x">> /\ requests[3].path = "/api/states/sensor.st.x"
    /\ requests[4] = Post("/api/states/sensor.test_energy_yesterday", [state |-> "750.0"])

---------------------------------------------------------------------------
(* C7 *)

\* C7: a start invocation that succeeded issued exactly one request, the one
\* that sets the status entity to the active value for its domain; for an
\* input_boolean it is turn_on exactly when the lower-cased value is on, true
\* or 1, and turn_off otherwise.
C7_StartWritesActiveOnce ==
    (argv.command = "start" /\ Succeeded) =>
        /\ Len(requests) = 1
        /\ requests[1] = Write(StatusEntity, StrV(argv.active_state))

\* C7: start switched an input_boolean on for the active value "ON".
C7_Witness_BooleanOn ==
    /\ argv.command = "start"
    /\ Succeeded
    /\ DomainPrefix(StatusEntity) = "input_boolean"
    /\ argv.active_state = "ON"
    /\ requests[1].path = "/api/services/input_boolean/turn_on"

---------------------------------------------------------------------------
(* C8 *)

ScenarioInitLen == IF argv.options.init THEN 7 ELSE 0
ScenarioDuration ==
    IF argv.options.duration_sec = None
    THEN DEFAULT_DURATION_SEC
    ELSE argv.options.duration_sec[1]

\* an empty --start-iso counts as not given
StartIsoGiven == Truthy(argv.options.start_iso)

\* the k-th request of a scenario, the cycle-start write apart
ScenarioRequest(k) ==
    CASE argv.options.init /\ k <= 5 -> ResetRequests[k]
      [] argv.options.init /\ k = 6 -> Write(StatusEntity, StrV(argv.inactive_state))
      [] argv.options.init /\ k = 7 -> Write(EnergyWriteEntity, IntV(0))
      [] k = ScenarioInitLen + 2 -> Write(StatusEntity, StrV(argv.active_state))
      [] k = ScenarioInitLen + 3 -> Write(StatusEntity, StrV(argv.inactive_state))
      [] k = ScenarioInitLen + 4 -> Write(EnergyWriteEntity, argv.options.energy_wh[1])

\* the requests of a scenario are, one at a time and in this order, the init
\* sequence (with --init), the cycle-start write (with a timestamp among
\* starts), status active, status inactive, energy; a successful run issued
\* them all
ScenarioOrder(starts) ==
    argv.command = "scenario" =>
        /\ OneAtATime
        /\ Len(requests) <= ScenarioInitLen + 4
        /\ \A k \in 1..Len(requests) :
              IF k = ScenarioInitLen + 1
              THEN IsSetCycleStart(requests[k]) /\ requests[k].payload.timestamp \in starts
              ELSE requests[k] = ScenarioRequest(k)
        /\ Succeeded => Len(requests) = ScenarioInitLen + 4

\* the cycle start taken from the invocation time
StartFromInvocation ==
    { IF StartIsoGiven
      THEN _timestamp(FromIsoFormat(argv.options.start_iso[1]))
      ELSE _timestamp(invoked - Seconds(ScenarioDuration)) }

\* the cycle start taken from the clock when the cycle-start write is issued;
\* the clock does not move between that reading and the request's return
StartFromClockRead ==
    IF StartIsoGiven
    THEN { _timestamp(FromIsoFormat(argv.options.start_iso[1])) }
    ELSE { ts \in _timestamp(invoked - Seconds(ScenarioDuration))
                    .. _timestamp(clock - Seconds(ScenarioDuration)) :
             /\ ~argv.options.init => ts = _timestamp(invoked - Seconds(ScenarioDuration))
             /\ (pc = "urlopen" /\ Len(requests) = ScenarioInitLen + 1)
                    => ts = _timestamp(clock - Seconds(ScenarioDuration)) }

---------------------------------------------------------------------------
(* C9 *)

\* C9: end with --duration-sec d (0 included) issues the cycle-start write
\* with invocation time minus d first and the inactive status write only after
\* it returned; end without a duration issues the status write alone and never
\* writes the cycle-start helper.
C9_EndOrder ==
    argv.command = "end" =>
        /\ OneAtATime
        /\ IF argv.options.duration_sec # None
           THEN /\ Len(requests) <= 2
                /\ Len(requests) >= 1 =>
                      requests[1] = SetCycleStart(
                          _timestamp(invoked - Seconds(argv.options.duration_sec[1])))
                /\ Len(requests) = 2 =>
                      /\ responses[1] = "ok"
                      /\ requests[2] = Write(StatusEntity, StrV(argv.inactive_state))
                /\ Succeeded => Len(requests) = 2
           ELSE /\ Len(requests) <= 1
                /\ Len(requests) = 1 =>
                      requests[1] = Write(StatusEntity, StrV(argv.inactive_state))
                /\ RequestsTo(CycleStartEntity) = {}
                /\ Succeeded => Len(requests) = 1

\* C9: end --duration-sec 0 succeeded with both writes.
C9_Witness_ZeroDuration ==
    /\ argv.command = "end"
    /\ argv.options.duration_sec = Some(0)
    /\ Succeeded
    /\ Len(requests) = 2
    /\ IsSetCycleStart(requests[1])

---------------------------------------------------------------------------
(* C10 *)

\* C10: every request that changes the cycle-start helper is
\* input_datetime.set_datetime with an integer timestamp, whatever the domain
\* prefix of the helper's identifier; start, energy and dump never change it.
C10_CycleStartOnlyBySetDatetime ==
    /\ \A k \in RequestsTo(CycleStartEntity) : IsSetCycleStart(requests[k])
    /\ argv.command \in {"start", "energy", "dump"} => RequestsTo(CycleStartEntity) = {}

\* C10: a cycle-start helper configured as input_text.cs was set through
\* set_datetime by split.
C10_Witness_ForeignDomain ==
    /\ argv.command = "split"
    /\ CycleStartEntity = <<"input_text", "cs">>
    /\ Succeeded
    /\ requests[1].path = "/api/services/input_datetime/set_datetime"
    /\ requests[1].payload.entity_id = "input_text.cs"
    /\ requests[1].payload.timestamp > 0

====
